---- MODULE Spec2Model ----
(***************************************************************************)
(* Model of scripts/parse_feed.py: the Sparkle appcast extractor.          *)
(*                                                                         *)
(* Strings are sequences of one-character strings, so that strip() and     *)
(* split('/') are computed character by character.  An lxml element is a   *)
(* record [tag, text, attrib, children]; a tag or attribute key is the     *)
(* pair <<namespace URI, local name>> (lxml's "{uri}local" notation), the  *)
(* unqualified name having the namespace "".  An optional element (the     *)
(* result of find) is a sequence of length 0 or 1.                         *)
(***************************************************************************)
EXTENDS Integers, Sequences, FiniteSets, TLC

VARIABLES argv_len, tree, i, version, short_version, description, zip_url,
          items, stdout, stderr, status, pc

vars == <<argv_len, tree, i, version, short_version, description, zip_url,
          items, stdout, stderr, status, pc>>

----------------------------------------------------------------------------
(* Bounds of the checked input space. *)

MaxItems == 2
MaxLen == 5
MaxChildren == 3
MaxEnclosures == 3

----------------------------------------------------------------------------
(* Values. *)

\* Python's None, as the text of an element without text content: a value
\* that differs from every string over the alphabet, '' included.
None == <<"None">>

\* namespaces['sparkle']
sparkle == "http://www.andymatuschak.org/xml-namespaces/sparkle"

\* Another namespace URI, which the script does not know.
otherNs == "urn:other"

\* f"{{{ns}}}{local}"; the unqualified name has ns = "".
QName(ns, local) == <<ns, local>>

\* f"{{{namespaces['sparkle']}}}deltaFrom"
delta_attr == QName(sparkle, "deltaFrom")

Elem(tag, text, attrib, children) ==
    [tag |-> tag, text |-> text, attrib |-> attrib, children |-> children]

\* White space that str.strip() with no argument removes.
Whitespace == {" ", "\t", "\n", "\r", "\f"}

\* Python truthiness of a str-or-None value.
Truthy(s) == s # None /\ s # <<>>

----------------------------------------------------------------------------
(* Library functions the script calls, as it uses them. *)

RECURSIVE LStrip(_)
LStrip(s) ==
    IF s # <<>> /\ Head(s) \in Whitespace THEN LStrip(Tail(s)) ELSE s

RECURSIVE RStrip(_)
RStrip(s) ==
    IF s # <<>> /\ s[Len(s)] \in Whitespace
    THEN RStrip(SubSeq(s, 1, Len(s) - 1))
    ELSE s

\* str.lstrip(): the trailing white space stays.
LStripOnly(s) == LStrip(s)

\* str.strip()
Strip(s) == RStrip(LStrip(s))

\* True iff sep occurs in s ('/' in zip_url).
Contains(s, sep) == \E k \in 1..Len(s) : s[k] = sep

\* str.split(sep) for a one-character sep: the list of segments.
RECURSIVE Split(_, _)
Split(s, sep) ==
    IF ~Contains(s, sep)
    THEN <<s>>
    ELSE LET k == CHOOSE k \in 1..Len(s) :
                      s[k] = sep /\ \A j \in 1..(k - 1) : s[j] # sep
         IN <<SubSeq(s, 1, k - 1)>> \o Split(SubSeq(s, k + 1, Len(s)), sep)

\* element.findall(name): the direct children with that tag, in order.
FindAll(e, tag) == SelectSeq(e.children, LAMBDA c : c.tag = tag)

\* element.find(name): the first such child, or nothing.
Find(e, tag) ==
    LET m == FindAll(e, tag) IN IF m = <<>> THEN <<>> ELSE <<m[1]>>

\* All elements below the elements of cs, in document order.
RECURSIVE Descendants(_)
Descendants(cs) ==
    IF cs = <<>>
    THEN <<>>
    ELSE <<cs[1]>> \o Descendants(cs[1].children) \o Descendants(Tail(cs))

\* root.findall('.//item'): the unqualified item elements at any depth
\* below the root, in document order.
FindAllItems(root) ==
    SelectSeq(Descendants(root.children), LAMBDA c : c.tag = QName("", "item"))

----------------------------------------------------------------------------
(* The body of the loop over the items, lines 32-75. *)

\* Lines 33-38 with the two lookups in the other order.
UnqualifiedFirstElem(item, local) ==
    LET q == FindAll(item, QName("", local))
        v == FindAll(item, QName(sparkle, local))
    IN  IF q # <<>> THEN <<q[1]>> ELSE IF v # <<>> THEN <<v[1]>> ELSE <<>>

\* Lines 33-38 and 42-47: the vendor-qualified child, else the first
\* unqualified child of that local name.
LookupElem(item, local) ==
    LET e == Find(item, QName(sparkle, local))
    IN  IF e = <<>> THEN Find(item, QName("", local)) ELSE e

\* Lines 39, 48 and 52: elem.text if elem is not None else ''
TextOf(e) == IF e # <<>> THEN e[1].text ELSE <<>>

VersionOf(item) == TextOf(LookupElem(item, "version"))

ShortVersionOf(item) == TextOf(LookupElem(item, "shortVersionString"))

\* Lines 51-52.
DescriptionOf(item) == TextOf(Find(item, QName("", "description")))

\* Line 61, matching deltaFrom by its local name in any namespace.
IsDeltaAnyNamespace(enclosure) ==
    \E q \in DOMAIN enclosure.attrib : q[2] = "deltaFrom"

\* Line 61: the enclosure is skipped iff it carries the delta attribute.
IsDelta(enclosure) == delta_attr \in DOMAIN enclosure.attrib

\* enclosure.attrib.get('url', '')
UrlAttr(enclosure) ==
    IF QName("", "url") \in DOMAIN enclosure.attrib
    THEN enclosure.attrib[QName("", "url")]
    ELSE <<>>

\* Lines 55-63 without the test of line 61: the url of the first enclosure.
FirstEnclosureUrl(item) ==
    LET es == FindAll(item, QName("", "enclosure"))
    IN  IF es = <<>> THEN <<>> ELSE UrlAttr(es[1])

\* Lines 55-63: the url of the first enclosure that is no delta, else ''.
ZipUrlOf(item) ==
    LET es == SelectSeq(FindAll(item, QName("", "enclosure")),
                        LAMBDA e : ~IsDelta(e))
    IN  IF es = <<>> THEN <<>> ELSE UrlAttr(es[1])

\* Line 67, taking the first segment instead of the last.
ZipFilenameFirst(url) ==
    IF Contains(url, "/") THEN Split(url, "/")[1] ELSE url

\* Line 67.
ZipFilename(url) ==
    IF Contains(url, "/")
    THEN LET parts == Split(url, "/") IN parts[Len(parts)]
    ELSE url

\* Line 65.
Complete(v, s, z) == Truthy(v) /\ Truthy(s) /\ Truthy(z)

\* Lines 69-75; d is a string here.
Record(v, s, d, z) ==
    [build_num |-> Strip(v), short_version_str |-> Strip(s),
     description |-> Strip(d), zip_url |-> z, zip_filename |-> ZipFilename(z)]

----------------------------------------------------------------------------
(* The run of the script. *)

Init ==
    /\ argv_len \in 1..3
    /\ tree = <<>>
    /\ i = 1
    /\ version = <<>> /\ short_version = <<>> /\ description = <<>>
    /\ zip_url = <<>>
    /\ items = <<>>
    /\ stdout = <<>> /\ stderr = <<>>
    /\ status = -1          \* the process has not exited
    /\ pc = "main"

\* Lines 83-88.
Main ==
    /\ pc = "main"
    /\ IF argv_len # 2
       THEN /\ stderr' = Append(stderr, "usage")
            /\ status' = 1
            /\ pc' = "exit"
       ELSE /\ pc' = "load"
            /\ UNCHANGED <<stderr, status>>
    /\ UNCHANGED <<argv_len, tree, i, version, short_version, description,
                   zip_url, items, stdout>>

\* Lines 18-27: open and parse the file, which raises when the file cannot
\* be read or holds nothing a tree can be recovered from; otherwise the
\* document is one of Documents.
LoadFrom(Documents) ==
    /\ pc = "load"
    /\ \/ /\ pc' = "except"
          /\ UNCHANGED <<tree, items, i>>
       \/ \E root \in Documents :
            /\ tree' = <<root>>
            /\ items' = <<>>
            /\ i' = 1
            /\ pc' = "loop"
    /\ UNCHANGED <<argv_len, version, short_version, description, zip_url,
                   stdout, stderr, status>>

\* Lines 30-75 with the record printed as soon as it is extracted.
ProcessItemStreaming ==
    /\ pc = "loop"
    /\ i <= Len(FindAllItems(tree[1]))
    /\ LET item == FindAllItems(tree[1])[i]
           v == VersionOf(item)
           s == ShortVersionOf(item)
           d == DescriptionOf(item)
           z == ZipUrlOf(item)
       IN  /\ version' = v /\ short_version' = s /\ description' = d
           /\ zip_url' = z
           /\ IF Complete(v, s, z)
              THEN IF d = None
                   THEN /\ pc' = "except"
                        /\ UNCHANGED <<items, i, stdout>>
                   ELSE /\ items' = Append(items, Record(v, s, d, z))
                        /\ stdout' = Append(stdout, <<Record(v, s, d, z)>>)
                        /\ i' = i + 1
                        /\ pc' = "loop"
              ELSE /\ i' = i + 1
                   /\ pc' = "loop"
                   /\ UNCHANGED <<items, stdout>>
    /\ UNCHANGED <<argv_len, tree, stderr, status>>

\* Lines 30-75: one iteration of the loop.  Line 72, description.strip(),
\* raises AttributeError when the description element has no text, its text
\* being None; version and short_version are strings when line 70 is
\* reached.
ProcessItem ==
    /\ pc = "loop"
    /\ i <= Len(FindAllItems(tree[1]))
    /\ LET item == FindAllItems(tree[1])[i]
           v == VersionOf(item)
           s == ShortVersionOf(item)
           d == DescriptionOf(item)
           z == ZipUrlOf(item)
       IN  /\ version' = v /\ short_version' = s /\ description' = d
           /\ zip_url' = z
           /\ IF Complete(v, s, z)
              THEN IF d = None
                   THEN /\ pc' = "except"
                        /\ UNCHANGED <<items, i>>
                   ELSE /\ items' = Append(items, Record(v, s, d, z))
                        /\ i' = i + 1
                        /\ pc' = "loop"
              ELSE /\ i' = i + 1
                   /\ pc' = "loop"
                   /\ UNCHANGED items
    /\ UNCHANGED <<argv_len, tree, stdout, stderr, status>>

\* Line 77 with an empty result treated as an error.
PrintJsonFailEmpty ==
    /\ pc = "loop"
    /\ i > Len(FindAllItems(tree[1]))
    /\ IF items = <<>>
       THEN /\ stderr' = Append(stderr, "error")
            /\ status' = 1
            /\ UNCHANGED stdout
       ELSE /\ stdout' = Append(stdout, items)
            /\ status' = 0
            /\ UNCHANGED stderr
    /\ pc' = "exit"
    /\ UNCHANGED <<argv_len, tree, i, version, short_version, description,
                   zip_url, items>>

\* Line 77, after the loop, and the normal end of the process.
PrintJson ==
    /\ pc = "loop"
    /\ i > Len(FindAllItems(tree[1]))
    /\ stdout' = Append(stdout, items)
    /\ status' = 0
    /\ pc' = "exit"
    /\ UNCHANGED <<argv_len, tree, i, version, short_version, description,
                   zip_url, items, stderr>>

\* Lines 79-81.
Except ==
    /\ pc = "except"
    /\ stderr' = Append(stderr, "error")
    /\ status' = 1
    /\ pc' = "exit"
    /\ UNCHANGED <<argv_len, tree, i, version, short_version, description,
                   zip_url, items, stdout>>

----------------------------------------------------------------------------
(* Input documents. *)

SeqsUpTo(S, n) == UNION { [1..k -> S] : k \in 0..n }

\* An element with text and nothing else.
Leaf(tag, text) == Elem(tag, text, <<>>, <<>>)

ItemElem(children) == Elem(QName("", "item"), None, <<>>, children)

EnclosureElem(attrib) == Elem(QName("", "enclosure"), None, attrib, <<>>)

UrlOnly(url) == (QName("", "url") :> url)

\* <rss><channel> item* </channel></rss>
Rss(its) ==
    Elem(QName("", "rss"), None, <<>>,
         <<Elem(QName("", "channel"), None, <<>>, its)>>)

\* The items directly below the root.
Flat(its) == Elem(QName("", "rss"), None, <<>>, its)

\* Every later item nested in the item before it.
RECURSIVE Nest(_)
Nest(its) ==
    IF Len(its) <= 1
    THEN its
    ELSE <<[its[1] EXCEPT !.children = @ \o Nest(Tail(its))]>>

Nested(its) == Elem(QName("", "rss"), None, <<>>, Nest(its))

\* An item by its version, shortVersionString, description and enclosure
\* children, each a sequence of elements that may be empty.
MainItem(v, s, d, e) == ItemElem(v \o s \o d \o e)

DeltaEnclosure == EnclosureElem(UrlOnly(<<"p">>) @@ (delta_attr :> <<"a">>))

FullEnclosure == EnclosureElem(UrlOnly(<<"u">>))

\* Items that have or lack each field: every version (none, white space
\* only, two texts) with every description (none, without text, a text),
\* an item without shortVersionString and one whose only enclosure is a
\* delta.
MainItems ==
    { MainItem(v, <<Leaf(QName(sparkle, "shortVersionString"), <<"s">>)>>,
               d, <<DeltaEnclosure, FullEnclosure>>) :
        v \in { <<>>,
                <<Leaf(QName(sparkle, "version"), <<" ">>)>>,
                <<Leaf(QName(sparkle, "version"), <<"a">>)>>,
                <<Leaf(QName(sparkle, "version"), <<"b">>)>> },
        d \in { <<>>,
                <<Leaf(QName("", "description"), None)>>,
                <<Leaf(QName("", "description"), <<"d">>)>> } }
    \cup
    { MainItem(<<Leaf(QName(sparkle, "version"), <<"a">>)>>, <<>>,
               <<Leaf(QName("", "description"), <<"d">>)>>,
               <<FullEnclosure>>),
      MainItem(<<Leaf(QName(sparkle, "version"), <<"a">>)>>,
               <<Leaf(QName(sparkle, "shortVersionString"), <<"s">>)>>,
               <<Leaf(QName("", "description"), <<"d">>)>>,
               <<DeltaEnclosure>>) }

\* The documents of at most n such items, in each of the three layouts.
Feeds(n) ==
    { Rss(its) : its \in SeqsUpTo(MainItems, n) }
    \cup { Flat(its) : its \in SeqsUpTo(MainItems, n) }
    \cup { Nested(its) : its \in SeqsUpTo(MainItems, n) }

\* The characters of the texts and urls: two of white space, a letter and
\* the separator of url segments.
Chars == {" ", "\n", "a", "/"}

\* The strings of at most n characters; an element's text is never ''.
Strings(n) == SeqsUpTo(Chars, n)

Texts(n) == Strings(n) \ {<<>>}

\* An item with the four fields, each in the vendor's usual form.
PlainItem(v, s, d, url) ==
    ItemElem(<<Leaf(QName(sparkle, "version"), v),
               Leaf(QName(sparkle, "shortVersionString"), s),
               Leaf(QName("", "description"), d),
               EnclosureElem(UrlOnly(url))>>)

\* One field ranges over the strings of at most n characters, the others
\* are fixed.
TextItems(n) ==
    { PlainItem(t, <<"2">>, <<"d">>, <<"u">>) : t \in Texts(n) }
    \cup { PlainItem(<<"1">>, t, <<"d">>, <<"u">>) : t \in Texts(n) }
    \cup { PlainItem(<<"1">>, <<"2">>, t, <<"u">>) : t \in Texts(n) }
    \cup { PlainItem(<<"1">>, <<"2">>, <<"d">>, t) : t \in Strings(n) }

TextFeeds(n) == { Rss(<<it>>) : it \in TextItems(n) }

\* The children an item may have under one local name: in the vendor
\* namespace, unqualified or in another namespace, with a text or without.
NamedChildren(local) ==
    { Leaf(QName(sparkle, local), <<"q">>),
      Leaf(QName(sparkle, local), <<"r">>),
      Leaf(QName(sparkle, local), None),
      Leaf(QName("", local), <<"u">>),
      Leaf(QName("", local), <<"v">>),
      Leaf(QName("", local), None),
      Leaf(QName(otherNs, local), <<"o">>) }

\* At most n such children for one of version and shortVersionString, in
\* any order, around the other fields.
LookupItems(n) ==
    { ItemElem(<<Leaf(QName(sparkle, "shortVersionString"), <<"2">>)>>
               \o cs \o <<EnclosureElem(UrlOnly(<<"u">>))>>) :
        cs \in SeqsUpTo(NamedChildren("version"), n) }
    \cup
    { ItemElem(<<EnclosureElem(UrlOnly(<<"u">>))>> \o cs
               \o <<Leaf(QName(sparkle, "version"), <<"1">>)>>) :
        cs \in SeqsUpTo(NamedChildren("shortVersionString"), n) }

LookupFeeds(n) == { Rss(<<it>>) : it \in LookupItems(n) }

\* The attribute sets an enclosure may have: the vendor's deltaFrom, an
\* unqualified deltaFrom, a deltaFrom of another namespace or none, and a
\* url, an empty url or none.
EnclosureAttribs ==
    { UrlOnly(<<"d">>) @@ (delta_attr :> <<"1">>),
      (delta_attr :> <<"1">>),
      UrlOnly(<<"f">>),
      UrlOnly(<<"g">>),
      UrlOnly(<<>>),
      <<>>,
      UrlOnly(<<"p">>) @@ (QName("", "deltaFrom") :> <<"1">>),
      UrlOnly(<<"o">>) @@ (QName(otherNs, "deltaFrom") :> <<"1">>) }

\* An item with at most n enclosures of those kinds, in any order.
EnclosureItems(n) ==
    { ItemElem(<<Leaf(QName(sparkle, "version"), <<"1">>),
                 Leaf(QName(sparkle, "shortVersionString"), <<"2">>)>>
               \o [k \in 1..Len(as) |-> EnclosureElem(as[k])]) :
        as \in SeqsUpTo(EnclosureAttribs, n) }

EnclosureFeeds(n) == { Rss(<<it>>) : it \in EnclosureItems(n) }

----------------------------------------------------------------------------
(* Specifications: the same run over each family of input documents. *)

Load == LoadFrom(Feeds(MaxItems))

Next == Main \/ Load \/ ProcessItem \/ PrintJson \/ Except

Spec == Init /\ [][Next]_vars

LoadText == LoadFrom(TextFeeds(MaxLen))

NextText == Main \/ LoadText \/ ProcessItem \/ PrintJson \/ Except

SpecText == Init /\ [][NextText]_vars

LoadLookup == LoadFrom(LookupFeeds(MaxChildren))

NextLookup == Main \/ LoadLookup \/ ProcessItem \/ PrintJson \/ Except

SpecLookup == Init /\ [][NextLookup]_vars

LoadEnclosure == LoadFrom(EnclosureFeeds(MaxEnclosures))

NextEnclosure == Main \/ LoadEnclosure \/ ProcessItem \/ PrintJson \/ Except

SpecEnclosure == Init /\ [][NextEnclosure]_vars

----------------------------------------------------------------------------
(* Vocabulary of the properties. *)

\* The items of the loaded document, in the order the loop visits them.
AllItems == IF tree = <<>> THEN <<>> ELSE FindAllItems(tree[1])

\* s holds a character that is no white space.
NonBlank(s) == \E k \in 1..Len(s) : s[k] \notin Whitespace

\* The item has a version, a shortVersionString and a non-delta enclosure
\* with a url.
HasAllThree(it) ==
    Truthy(VersionOf(it)) /\ Truthy(ShortVersionOf(it)) /\ Truthy(ZipUrlOf(it))

\* The loop has just run its body on an item: which one.
BodyRan == tree # <<>> /\ (pc = "except" \/ (pc = "loop" /\ i > 1))

LastItem == IF pc = "except" THEN AllItems[i] ELSE AllItems[i - 1]

\* The item has no description child, or its first one has no text.
NoDescriptionText(it) ==
    LET d == FindAll(it, QName("", "description"))
    IN  d = <<>> \/ d[1].text = None

----------------------------------------------------------------------------
(* Properties of the run over Feeds (Spec). *)

\* C1: in every emitted record build_num, short_version_str and zip_url
\* hold a character that is no white space (they are non-empty after
\* trimming); an item whose version or shortVersionString is white space
\* only produces no record.
C1_EmittedFieldsNonEmptyAfterTrim ==
    \A k \in 1..Len(items) :
        /\ NonBlank(items[k].build_num)
        /\ NonBlank(items[k].short_version_str)
        /\ NonBlank(items[k].zip_url)

\* C3: when the run over a loaded document has ended, the output is one
\* array holding exactly one record for each item that has all three
\* fields, in the order of the items.
C3_OutputIsSubsequenceOfCompleteItems ==
    (pc = "exit" /\ tree # <<>>) =>
        LET want == SelectSeq(AllItems, HasAllThree)
        IN  /\ Len(stdout) = 1
            /\ Len(stdout[1]) = Len(want)
            /\ \A k \in 1..Len(want) :
                  /\ stdout[1][k].build_num = Strip(VersionOf(want[k]))
                  /\ stdout[1][k].short_version_str
                        = Strip(ShortVersionOf(want[k]))
                  /\ stdout[1][k].zip_url = ZipUrlOf(want[k])

\* C4: once the loop body has run on an item that has all three fields and
\* whose description is absent or without text, the run has not failed and
\* the record just appended has the description ''.
C4_MissingDescriptionGivesEmptyString ==
    (BodyRan /\ HasAllThree(LastItem) /\ NoDescriptionText(LastItem)) =>
        /\ pc = "loop"
        /\ items # <<>>
        /\ items[Len(items)].description = <<>>

\* C5: a run that ended on a usage error, on a load failure or on a failure
\* inside the loop has a non-zero status and has written nothing to the
\* success stream, whatever was extracted before; the success stream is
\* written once, after the last item, by a run that ends with status 0.
C5_ErrorsAbortWithoutOutput ==
    /\ (pc = "exit" /\ (argv_len # 2 \/ tree = <<>> \/ i <= Len(AllItems)))
          => (status # 0 /\ stdout = <<>> /\ stderr # <<>>)
    /\ pc = "except" => stdout = <<>>
    /\ stdout # <<>> =>
          (pc = "exit" /\ status = 0 /\ i > Len(AllItems) /\ Len(stdout) = 1)

\* A run that failed inside the loop after it had extracted a record.
C5_Witness ==
    pc = "exit" /\ status # 0 /\ tree # <<>> /\ items # <<>> /\ stdout = <<>>

\* C8: a run that loaded the document and finished the loop ends with
\* status 0 and exactly one array on the success stream, the empty array
\* when no item has all three fields.
C8_CompletedRunWritesOneArray ==
    (pc = "exit" /\ tree # <<>> /\ i > Len(AllItems)) =>
        /\ status = 0
        /\ stderr = <<>>
        /\ stdout = <<items>>
        /\ (\A k \in 1..Len(AllItems) : ~HasAllThree(AllItems[k]))
              => stdout = << <<>> >>

\* A finished run over a document that has items, none of them complete.
C8_Witness ==
    /\ pc = "exit" /\ status = 0 /\ stdout = << <<>> >>
    /\ Len(AllItems) = MaxItems

----------------------------------------------------------------------------
(* Properties of the run over TextFeeds (SpecText). *)

\* r is t without its leading and trailing white space: a slice of t that
\* neither starts nor ends with white space, all of t outside it being
\* white space.
IsTrimOf(r, t) ==
    \E lo \in 1..(Len(t) + 1) : \E hi \in 0..Len(t) :
        /\ r = SubSeq(t, lo, hi)
        /\ \A k \in 1..Len(t) : (k < lo \/ k > hi) => t[k] \in Whitespace
        /\ r # <<>> => (r[1] \notin Whitespace /\ r[Len(r)] \notin Whitespace)

\* The enclosure the url is taken from: the first without the delta key.
ChosenEnclosure(it) ==
    LET es == FindAll(it, QName("", "enclosure"))
        k == CHOOSE k \in 1..Len(es) :
                 /\ delta_attr \notin DOMAIN es[k].attrib
                 /\ \A j \in 1..(k - 1) : delta_attr \in DOMAIN es[j].attrib
    IN  es[k]

\* The loop body has just appended a record for the item it ran on.
JustEmitted == pc = "loop" /\ i > 1 /\ HasAllThree(AllItems[i - 1])

\* C6: in the record just emitted, build_num, short_version_str and
\* description are the texts of their source elements without leading and
\* trailing white space, white space inside kept, and zip_url is the url
\* attribute of the chosen enclosure, unchanged.
C6_TextsTrimmedUrlUnchanged ==
    JustEmitted =>
        LET it == AllItems[i - 1]
            r == items[Len(items)]
        IN  /\ IsTrimOf(r.build_num, LookupElem(it, "version")[1].text)
            /\ IsTrimOf(r.short_version_str,
                        LookupElem(it, "shortVersionString")[1].text)
            /\ IsTrimOf(r.description,
                        FindAll(it, QName("", "description"))[1].text)
            /\ r.zip_url = ChosenEnclosure(it).attrib[QName("", "url")]

\* A record whose description had white space before, inside and after.
C6_Witness ==
    /\ JustEmitted
    /\ description[1] \in Whitespace
    /\ description[Len(description)] \in Whitespace
    /\ \E k \in 1..Len(items[Len(items)].description) :
          items[Len(items)].description[k] \in Whitespace

\* C10: in every emitted record zip_filename is the last segment of
\* zip_url: it holds no '/', zip_url ends with it, what precedes it in
\* zip_url (if anything) ends with '/', it is zip_url when zip_url holds no
\* '/' and it is '' when zip_url ends with '/'.
C10_FilenameIsLastSegment ==
    \A k \in 1..Len(items) :
        LET u == items[k].zip_url
            f == items[k].zip_filename
        IN  /\ ~Contains(f, "/")
            /\ Len(f) <= Len(u)
            /\ SubSeq(u, Len(u) - Len(f) + 1, Len(u)) = f
            /\ Len(f) < Len(u) => u[Len(u) - Len(f)] = "/"
            /\ ~Contains(u, "/") => f = u
            /\ (u # <<>> /\ u[Len(u)] = "/") => f = <<>>

\* A record whose url has a '/' inside and a segment after it.
C10_Witness ==
    \E k \in 1..Len(items) :
        /\ Contains(items[k].zip_url, "/")
        /\ items[k].zip_url[1] # "/"
        /\ items[k].zip_filename # <<>>
        /\ items[k].zip_filename # items[k].zip_url

----------------------------------------------------------------------------
(* Properties of the run over LookupFeeds (SpecLookup). *)

\* The positions of the item's children with the tag.
Positions(it, tag) == { k \in 1..Len(it.children) : it.children[k].tag = tag }

Min(S) == CHOOSE k \in S : \A j \in S : k <= j

\* The value C7 gives the local name: the text of the first vendor-qualified
\* child wherever it sits, else of the first unqualified child, else ''.
\* A child without text gives None, which counts as empty too.
ValueByC7(it, local) ==
    LET Q == Positions(it, QName(sparkle, local))
        U == Positions(it, QName("", local))
    IN  IF Q # {} THEN it.children[Min(Q)].text
        ELSE IF U # {} THEN it.children[Min(U)].text
        ELSE <<>>

\* The records emitted for the items before position n: one for each item
\* whose three values are non-empty.
EmittedBefore(n) ==
    Cardinality({ k \in 1..(n - 1) :
        /\ Truthy(ValueByC7(AllItems[k], "version"))
        /\ Truthy(ValueByC7(AllItems[k], "shortVersionString"))
        /\ Truthy(ZipUrlOf(AllItems[k])) })

----------------------------------------------------------------------------
(* Properties of the run over EnclosureFeeds (SpecEnclosure). *)

Enclosures(it) == FindAll(it, QName("", "enclosure"))

\* The positions of the enclosures without the vendor-qualified deltaFrom.
NonDelta(it) ==
    { k \in 1..Len(Enclosures(it)) :
        delta_attr \notin DOMAIN Enclosures(it)[k].attrib }

\* C2: the url the loop body extracts is the url attribute of the first
\* enclosure without the vendor-qualified deltaFrom ('' if it has no url
\* attribute, '' if there is no such enclosure), whatever the order of the
\* enclosures.
C2_UrlOfFirstNonDeltaEnclosure ==
    BodyRan =>
        LET es == Enclosures(LastItem)
            N == NonDelta(LastItem)
        IN  IF N = {}
            THEN zip_url = <<>>
            ELSE LET a == es[Min(N)].attrib
                 IN  zip_url = IF QName("", "url") \in DOMAIN a
                               THEN a[QName("", "url")]
                               ELSE <<>>

\* A delta enclosure before a full one: the record has the full one's url.
C2_Witness ==
    /\ BodyRan /\ pc = "loop" /\ items # <<>>
    /\ LET es == Enclosures(LastItem)
       IN  /\ Len(es) = 2
           /\ delta_attr \in DOMAIN es[1].attrib
           /\ QName("", "url") \in DOMAIN es[1].attrib
           /\ delta_attr \notin DOMAIN es[2].attrib
           /\ items[Len(items)].zip_url = es[2].attrib[QName("", "url")]
           /\ items[Len(items)].zip_url # es[1].attrib[QName("", "url")]

\* The enclosure has a deltaFrom attribute, none of them the vendor's.
OnlyForeignDelta(e) ==
    /\ \E q \in DOMAIN e.attrib : q[2] = "deltaFrom"
    /\ \A q \in DOMAIN e.attrib : q[2] = "deltaFrom" => q[1] # sparkle

\* C9: an enclosure is passed over as a delta iff it has the attribute
\* key made of the vendor namespace and deltaFrom: every enclosure before
\* the one that gave the url has that key, and an enclosure with only an
\* unqualified or foreign deltaFrom that has no enclosure without the key
\* before it gives the url and, in an emitted record, the record's zip_url.
C9_OnlyVendorDeltaFromMarksDelta ==
    BodyRan =>
        LET es == Enclosures(LastItem)
        IN  \A k \in 1..Len(es) :
              (\A j \in 1..(k - 1) : delta_attr \in DOMAIN es[j].attrib) =>
                 /\ delta_attr \in DOMAIN es[k].attrib =>
                        (k = Len(es) => zip_url = <<>>)
                 /\ OnlyForeignDelta(es[k]) =>
                        /\ zip_url = es[k].attrib[QName("", "url")]
                        /\ pc = "loop" =>
                              items[Len(items)].zip_url = zip_url

\* A record whose url comes from an enclosure with an unqualified deltaFrom
\* that follows a delta enclosure.
C9_Witness ==
    /\ BodyRan /\ pc = "loop" /\ items # <<>>
    /\ LET es == Enclosures(LastItem)
       IN  /\ Len(es) = 2
           /\ delta_attr \in DOMAIN es[1].attrib
           /\ QName("", "deltaFrom") \in DOMAIN es[2].attrib
           /\ items[Len(items)].zip_url = es[2].attrib[QName("", "url")]

====
